---------------------------- MODULE Spec2Model ----------------------------
(*
  A model of flask-baby-app: the token authorization gate
  (auth/auth_decorators.py, helpers/auth.py, helpers/exceptions.py) and the
  generic record store (models/BaseModel.py over the Occurrence table), the
  latter both over a session whose statements succeed (StoreSpec) and over
  one whose statements can fail (FaultySpec).

  Python values are modelled as follows.
    - A str is a sequence of chunks; the chunk SP is one space, every other
      chunk is a run of characters without a space.  The chunk JWT stands for
      the compact serialisation of the request's token (req.jwt).
    - An exception is a record [cls, msg, cause]; cls is the class name.
    - A call either returns or raises: [raised, exc, val].
*)
EXTENDS Integers, Sequences, FiniteSets, TLC

VARIABLES
    \* ---- token authorization gate
    pc,      \* position of the request being served: "idle", "called", "done"
    req,     \* the request being served
    out,     \* what decorated_function gave its caller
    calls,   \* the invocations of the wrapped function f during this request
    log,     \* what the gate logged during this request
    idp,     \* the identity provider: reachable or not, and its certificate listing
    now,     \* the clock read by the expiry check
    \* ---- generic record store
    rows,    \* the committed rows of the occurrence table, id -> row
    seq,     \* the last value handed out by the table's id sequence
    last,    \* the last store operation and what it returned
    born,    \* ghost: id -> the payload a record was created from, while the
             \* record has been neither updated nor deleted since
    gone,    \* ghost: the ids of the records a delete removed
    txn,     \* the session's transaction: "clean", or "failed" (unusable
             \* until session.rollback() is called)
    \* ---- serialization, record groups, request scope, concurrent requests
    view,    \* the last conversion (to_json, decamelize, controller create)
             \* and what it returned
    grp,     \* the last get_group call and what it returned
    rq,      \* a request's session: its phase and its uncommitted changes
    cc       \* two requests updating one record, each on its own session

gateVars == <<pc, req, out, calls, log, idp, now>>
storeVars == <<rows, seq, last, born, gone, txn>>
auxVars == <<view, grp, rq, cc>>
vars == <<pc, req, out, calls, log, idp, now, rows, seq, last, born, gone, txn,
          view, grp, rq, cc>>

--------------------------------------------------------------------------
(* Bounds *)

MaxTime == 1

--------------------------------------------------------------------------
(* Python values *)

SP == " "
BEARER == "Bearer"
JWT == "JWT"

NoneStr == "None"

Exc(cls, msg) == [cls |-> cls, msg |-> msg, cause |-> NoneStr]
NoExc == Exc("", "")

Returns(v) == [raised |-> FALSE, exc |-> NoExc, val |-> v]
Raises(e, dflt) == [raised |-> TRUE, exc |-> e, val |-> dflt]

\* Classes derived from keycloak.exceptions.KeycloakError.
KeycloakErrorClasses == {"KeycloakError", "KeycloakGetError"}

\* except (KeycloakError, BussinesRulesError) as e
GateCatches(e) == e.cls \in KeycloakErrorClasses \cup {"BussinesRulesError"}

\* set(iterable)
ToSet(s) == {s[i] : i \in DOMAIN s}

\* str.split(' '): the pieces between the separators, empty pieces included.
RECURSIVE SplitAcc(_, _, _, _)
SplitAcc(s, i, cur, acc) ==
    IF i > Len(s) THEN Append(acc, cur)
    ELSE IF s[i] = SP THEN SplitAcc(s, i + 1, <<>>, Append(acc, cur))
    ELSE SplitAcc(s, i + 1, Append(cur, s[i]), acc)

Split(s) == SplitAcc(s, 1, <<>>, <<>>)

--------------------------------------------------------------------------
(* helpers/exceptions.py *)

\* Error.from_exception(exception, message)
Error(e, message) ==
    [exception |-> e, type |-> e.cls, details |-> e.cause, message |-> message]

handle_exception_msg(e, msg) == Error(e, msg)

NoError == Error(NoExc, "")

--------------------------------------------------------------------------
(* The identity provider and the tokens it issues *)

Keys == {"k1", "k2"}
Roles == {"user_role", "admin_role"}

\* A certificate of the listing: its usage tag and the key its x5c[0] holds.
Cert(use, key) == [use |-> use, x5c |-> key]

\* The listings keycloak_client.certs() can answer with.  empty is the
\* answer {} (falsy); otherwise keys is certs['keys'].
CertListings ==
    { [empty |-> TRUE, keys |-> <<>>],
      [empty |-> FALSE, keys |-> <<>>],
      [empty |-> FALSE, keys |-> <<Cert("enc", "k1")>>],
      [empty |-> FALSE, keys |-> <<Cert("sig", "k1")>>],
      [empty |-> FALSE, keys |-> <<Cert("enc", "k2"), Cert("sig", "k1")>>],
      [empty |-> FALSE, keys |-> <<Cert("sig", "k1"), Cert("sig", "k2")>>] }

IdpStates == [up : BOOLEAN, certs : CertListings]

\* Role lists as they appear in a token or in token_required(required_roles).
RoleLists ==
    { <<>>, <<"user_role">>, <<"admin_role">>,
      <<"user_role", "admin_role">>, <<"user_role", "user_role">> }

\* The realm_access claim: absent, present but not a dict, or a dict with or
\* without the key 'roles'.
RealmAccesses ==
    { [kind |-> "absent", has_roles |-> FALSE, roles |-> <<>>],
      [kind |-> "nondict", has_roles |-> FALSE, roles |-> <<>>],
      [kind |-> "dict", has_roles |-> FALSE, roles |-> <<>>] }
    \cup { [kind |-> "dict", has_roles |-> TRUE, roles |-> rl] : rl \in RoleLists }

\* A token: the key whose private half signed it, its exp claim, realm_access.
Tokens == [sig : Keys, exp : 0..MaxTime, realm_access : RealmAccesses]

\* The values of the Authorization header.
Headers ==
    { <<>>,
      <<BEARER>>,
      <<JWT>>,
      <<BEARER, SP>>,
      <<BEARER, SP, JWT>>,
      <<SP, JWT>>,
      <<BEARER, SP, BEARER>>,
      <<BEARER, SP, JWT, SP, BEARER>> }

\* What a handler is called with (*args, **kwargs).
CallArgs ==
    { [args |-> <<"self">>, kwargs |-> <<>>],
      [args |-> <<"self">>, kwargs |-> << <<"id", "7">> >>] }

\* A value handed back to the caller of the gate: a handler's result, or the
\* tuple (Error, status) of a rejection.
Value(body, error, status) == [body |-> body, error |-> error, status |-> status]
NoValue == Value("", NoError, 0)

\* What the wrapped handler does when it is invoked.
FBehaviours ==
    { Returns(Value("data", NoError, 200)),
      Returns(Value("error-dict", NoError, 403)),
      Raises(Exc("KeycloakError", "handler"), NoValue),
      Raises(Exc("BussinesRulesError", "handler"), NoValue),
      Raises(Exc("ValueError", "handler"), NoValue) }

\* has_auth: request.headers.get('Authorization', None) is not None.
Requests ==
    { r \in [has_auth : BOOLEAN, authorization : Headers, jwt : Tokens,
             required_roles : RoleLists, call : CallArgs] :
        ~r.has_auth => r.authorization = <<>> }

NoReq ==
    [has_auth |-> FALSE, authorization |-> <<>>,
     jwt |-> [sig |-> "k1", exp |-> 0,
              realm_access |-> [kind |-> "absent", has_roles |-> FALSE, roles |-> <<>>]],
     required_roles |-> <<>>, call |-> [args |-> <<>>, kwargs |-> <<>>]]

--------------------------------------------------------------------------
(* helpers/auth.py *)

LogEntry(cls, msg, missing) == [cls |-> cls, msg |-> msg, missing |-> missing]

\* roles = set(realm_access.get('roles', []))
RealmRoles(realm_access) ==
    ToSet(IF realm_access.has_roles THEN realm_access.roles ELSE <<>>)

\* isinstance(token_decoded.get('realm_access', {}), dict)
RealmIsDict(realm_access) == realm_access.kind \in {"absent", "dict"}

\* missing_roles = list(required_set.difference(roles)) if roles else []
MissingRoles(realm_access, required_roles) ==
    IF RealmRoles(realm_access) # {}
    THEN ToSet(required_roles) \ RealmRoles(realm_access)
    ELSE {}

\* Faulty variant: the subset test written the wrong way round.
has_required_roles_reversed(token_decoded, required_roles) ==
    LET required_set == ToSet(required_roles)
        realm_access == token_decoded.realm_access
        roles == RealmRoles(realm_access)
        has == IF roles # {} THEN roles \subseteq required_set ELSE FALSE
        missing_roles == MissingRoles(realm_access, required_roles)
    IN  IF RealmIsDict(realm_access)
        THEN IF has THEN Returns(TRUE)
             ELSE IF Cardinality(missing_roles) > 1 THEN Returns(FALSE)
             ELSE IF missing_roles = {}
                  THEN Raises(Exc("IndexError", "list index out of range"), FALSE)
                  ELSE Returns(FALSE)
        ELSE Returns(FALSE)

has_required_roles(token_decoded, required_roles) ==
    LET required_set == ToSet(required_roles)
        realm_access == token_decoded.realm_access
        roles == RealmRoles(realm_access)
        has == IF roles # {} THEN required_set \subseteq roles ELSE FALSE
        missing_roles == MissingRoles(realm_access, required_roles)
    IN  IF RealmIsDict(realm_access)
        THEN IF has THEN Returns(TRUE)
             ELSE IF Cardinality(missing_roles) > 1 THEN Returns(FALSE)
             ELSE IF missing_roles = {}
                  THEN Raises(Exc("IndexError", "list index out of range"), FALSE)
                  ELSE Returns(FALSE)
        ELSE Returns(FALSE)

\* logger.exception(BussinesRulesError(missing_roles_str))
has_required_roles_log(token_decoded, required_roles) ==
    LET r == has_required_roles(token_decoded, required_roles)
    IN  IF RealmIsDict(token_decoded.realm_access) /\ ~r.raised /\ ~r.val
        THEN << LogEntry("BussinesRulesError", "missing roles",
                         MissingRoles(token_decoded.realm_access, required_roles)) >>
        ELSE <<>>

\* The loop over certs['keys']: the last certificate tagged 'sig' wins.
RECURSIVE SigCertFrom(_, _, _)
SigCertFrom(keys, i, sig_cert) ==
    IF i > Len(keys) THEN sig_cert
    ELSE SigCertFrom(keys, i + 1, IF keys[i].use = "sig" THEN keys[i].x5c ELSE sig_cert)

SigCert(certs) == IF certs.empty THEN "" ELSE SigCertFrom(certs.keys, 1, "")

\* Faulty variant: the key fetched by an earlier check is kept, the listing
\* is not read again.
get_public_key_cached(provider) ==
    IF ~provider.up
    THEN Raises(Exc("KeycloakGetError", "certs"), "")
    ELSE Returns("k1")

get_public_key(provider) ==
    IF ~provider.up
    THEN Raises(Exc("KeycloakGetError", "certs"), "")
    ELSE IF SigCert(provider.certs) = ""
         THEN Raises(Exc("ValueError", "Unable to load PEM file"), "")
         ELSE Returns(SigCert(provider.certs))

--------------------------------------------------------------------------
(* auth/auth_decorators.py *)

NoClaims == NoReq.jwt

\* token = authorization.split(' ')[1]
ExtractToken(r) ==
    IF r.has_auth /\ r.authorization # <<>>
    THEN IF Len(Split(r.authorization)) >= 2
         THEN Returns([none |-> FALSE, str |-> Split(r.authorization)[2]])
         ELSE Raises(Exc("IndexError", "list index out of range"),
                     [none |-> TRUE, str |-> <<>>])
    ELSE Returns([none |-> TRUE, str |-> <<>>])

\* keycloak_openid.decode_token(token, key=decoded_key, algorithms=['RS256'],
\*     options={'verify_aud': False, 'verify_iat': False, 'verify_exp': True})
\* Faulty variant: the expiry is not verified ('verify_exp': False).
decode_token_no_exp(token, jwt, key, clock) ==
    IF token.none
    THEN Raises(Exc("AttributeError", "NoneType"), NoReq.jwt)
    ELSE IF token.str # <<JWT>>
    THEN Raises(Exc("JWTError", "Not enough segments"), NoReq.jwt)
    ELSE IF jwt.sig # key
    THEN Raises(Exc("JWTError", "Signature verification failed."), NoReq.jwt)
    ELSE Returns(jwt)

decode_token(token, jwt, key, clock) ==
    IF token.none
    THEN Raises(Exc("AttributeError", "NoneType"), NoClaims)
    ELSE IF token.str # <<JWT>>
    THEN Raises(Exc("JWTError", "Not enough segments"), NoClaims)
    ELSE IF jwt.sig # key
    THEN Raises(Exc("JWTError", "Signature verification failed."), NoClaims)
    ELSE IF jwt.exp < clock
    THEN Raises(Exc("ExpiredSignatureError", "Signature has expired."), NoClaims)
    ELSE Returns(jwt)

AuthMessage == "Authentication failed or user without permission."
Forbidden == 403

\* The except clause of the gate: what the caller gets for an exception e
\* raised inside the try block.
GateExcept(e) ==
    IF GateCatches(e)
    THEN Returns(Value("", handle_exception_msg(e, AuthMessage), Forbidden))
    ELSE Raises(e, NoValue)

GateExceptLog(e) ==
    IF GateCatches(e) THEN << LogEntry(e.cls, e.msg, {}) >> ELSE <<>>

\* Faulty variant: the keyword arguments are not passed on, f(*args).
Invocation_no_kwargs(r, fres) ==
    [call |-> [args |-> r.call.args, kwargs |-> <<>>], result |-> fres]

\* The invocation f(*args, **kwargs) the gate makes.
Invocation(r, fres) == [call |-> r.call, result |-> fres]

\* The try block, from decode_token on: [out, calls, log].
GateTry(r, token, key, clock, fres) ==
    LET decoded == decode_token(token, r.jwt, key, clock)
        perm == has_required_roles(decoded.val, r.required_roles)
        permlog == has_required_roles_log(decoded.val, r.required_roles)
        missing == Exc("BussinesRulesError", "Missing one or more roles.")
    IN  IF decoded.raised
        THEN [out |-> GateExcept(decoded.exc), calls |-> <<>>,
              log |-> GateExceptLog(decoded.exc)]
        ELSE IF perm.raised
        THEN [out |-> GateExcept(perm.exc), calls |-> <<>>,
              log |-> permlog \o GateExceptLog(perm.exc)]
        ELSE IF ~perm.val
        THEN [out |-> GateExcept(missing), calls |-> <<>>,
              log |-> permlog \o GateExceptLog(missing)]
        ELSE IF fres.raised
        THEN [out |-> GateExcept(fres.exc), calls |-> <<Invocation(r, fres)>>,
              log |-> GateExceptLog(fres.exc)]
        ELSE [out |-> Returns(fres.val), calls |-> <<Invocation(r, fres)>>,
              log |-> <<>>]

\* token_required(required_roles)(f)(*args, **kwargs): [out, calls, log].
decorated_function(r, provider, clock, fres) ==
    LET token == ExtractToken(r)
        decoded_key == get_public_key(provider)
    IN  IF token.raised
        THEN [out |-> Raises(token.exc, NoValue), calls |-> <<>>, log |-> <<>>]
        ELSE IF decoded_key.raised
        THEN [out |-> Raises(decoded_key.exc, NoValue), calls |-> <<>>, log |-> <<>>]
        ELSE GateTry(r, token.val, decoded_key.val, clock, fres)

NoOut == Returns(NoValue)

GateInit ==
    /\ pc = "idle"
    /\ req = NoReq
    /\ out = NoOut
    /\ calls = <<>>
    /\ log = <<>>
    /\ idp = [up |-> TRUE, certs |-> [empty |-> FALSE, keys |-> <<Cert("sig", "k1")>>]]
    /\ now = 0

\* A request reaches a route wrapped by token_required.
Arrive ==
    /\ pc = "idle"
    /\ \E r \in Requests : req' = r
    /\ pc' = "called"
    /\ UNCHANGED <<out, calls, log, idp, now>>
    /\ UNCHANGED storeVars
    /\ UNCHANGED auxVars

\* The gate serves the request.
Serve ==
    /\ pc = "called"
    /\ \E fres \in FBehaviours :
         LET d == decorated_function(req, idp, now, fres)
         IN  /\ out' = d.out
             /\ calls' = d.calls
             /\ log' = d.log
    /\ pc' = "done"
    /\ UNCHANGED <<req, idp, now>>
    /\ UNCHANGED storeVars
    /\ UNCHANGED auxVars

\* The request is over; nothing of it is kept.
Finish ==
    /\ pc = "done"
    /\ pc' = "idle"
    /\ req' = NoReq
    /\ out' = NoOut
    /\ calls' = <<>>
    /\ log' = <<>>
    /\ UNCHANGED <<idp, now>>
    /\ UNCHANGED storeVars
    /\ UNCHANGED auxVars

\* The identity provider goes down, comes back, or changes its listing.
ProviderChange ==
    /\ pc = "idle"
    /\ \E p \in IdpStates : p # idp /\ idp' = p
    /\ UNCHANGED <<pc, req, out, calls, log, now>>
    /\ UNCHANGED storeVars
    /\ UNCHANGED auxVars

\* Time passes.
Tick ==
    /\ pc = "idle"
    /\ now < MaxTime
    /\ now' = now + 1
    /\ UNCHANGED <<pc, req, out, calls, log, idp>>
    /\ UNCHANGED storeVars
    /\ UNCHANGED auxVars

GateNext == Arrive \/ Serve \/ Finish \/ ProviderChange \/ Tick

--------------------------------------------------------------------------
(* Bounds of the record store *)

MaxId == 2

--------------------------------------------------------------------------
(* models/Occurrence.py: the occurrence table *)

\* None, as the value of a string attribute or column (NULL).
PyNone == "<None>"

\* id=None, the default of get and delete.
IdNone == -1

Columns ==
    {"id", "type_tag", "description", "resume", "active", "register_at", "update_at"}

\* Columns declared nullable=False that hold strings or timestamps.
RequiredStr == {"type_tag", "resume"}
RequiredTime == {"register_at", "update_at"}

\* A mapping of field names to values: has is the set of its keys, v holds the
\* value of each key in has (the other fields of v are padding).
Payload(has, v) == [has |-> has, v |-> v]

Vals(id, type_tag, description, resume, active, register_at, update_at, bogus) ==
    [id |-> id, type_tag |-> type_tag, description |-> description,
     resume |-> resume, active |-> active, register_at |-> register_at,
     update_at |-> update_at, bogus |-> bogus]

Pad == Vals(0, "", "", "", FALSE, 0, 0, "")

P_LEAK ==
    Payload({"type_tag", "resume", "active", "register_at", "update_at"},
            Vals(0, "leak", "", "pipe burst", TRUE, 5, 5, ""))
P_NOISE ==
    Payload({"type_tag", "description", "resume", "active", "register_at", "update_at"},
            Vals(0, "noise", "d_1", "pipe_burst", FALSE, 3, 4, ""))
P_MIN ==
    Payload({"type_tag", "resume", "register_at", "update_at"},
            Vals(0, "leak", "", "r", FALSE, 4, 4, ""))
P_NO_RESUME ==
    Payload({"type_tag", "active", "register_at", "update_at"},
            Vals(0, "leak", "", "", TRUE, 5, 5, ""))
P_BOGUS ==
    Payload({"type_tag", "resume", "active", "register_at", "update_at", "bogus"},
            Vals(0, "leak", "", "pipe burst", TRUE, 5, 5, "x"))

\* The payloads create is called with.
CreatePayloads == {P_LEAK, P_NOISE, P_MIN, P_NO_RESUME, P_BOGUS}

U_EMPTY == Payload({}, Pad)
U_RESUME == Payload({"resume"}, Vals(0, "", "", "fixed", FALSE, 0, 0, ""))
U_DESC == Payload({"description", "active"}, Vals(0, "", "d_2", "", FALSE, 0, 0, ""))
U_NULL == Payload({"resume"}, Vals(0, "", "", PyNone, FALSE, 0, 0, ""))
U_ID == Payload({"id"}, Vals(1, "", "", "", FALSE, 0, 0, ""))
U_BOGUS == Payload({"bogus"}, Vals(0, "", "", "", FALSE, 0, 0, "x"))

\* The payloads update is called with.
UpdatePayloads == {U_EMPTY, U_RESUME, U_DESC, U_NULL, U_ID, U_BOGUS}

\* The identifiers the operations are called with.
Ids == {IdNone} \cup (0..MaxId)

Row(id, type_tag, description, resume, active, register_at, update_at) ==
    [id |-> id, type_tag |-> type_tag, description |-> description,
     resume |-> resume, active |-> active, register_at |-> register_at,
     update_at |-> update_at]

NoRow == Row(IdNone, "", "", "", FALSE, 0, 0)

\* What a store operation gives its caller: a record, a list of records, None,
\* an Error value, or an exception.
StoreResult(kind, row, list, error, exc) ==
    [kind |-> kind, row |-> row, list |-> list, error |-> error, exc |-> exc]

RecordResult(r) == StoreResult("record", r, {}, NoError, NoExc)
ListResult(l) == StoreResult("list", NoRow, l, NoError, NoExc)
NoneResult == StoreResult("none", NoRow, {}, NoError, NoExc)
ErrorResult(e) == StoreResult("error", NoRow, {}, e, NoExc)
RaisedResult(e) == StoreResult("raised", NoRow, {}, NoError, e)

\* cls(**payload): the declarative constructor takes mapped attributes only.
ConstructorAccepts(payload) == payload.has \subseteq Columns

\* The row an INSERT of cls(**payload) writes: the sequence supplies a missing
\* id, the column default a missing active, NULL every other missing column.
InsertedRow(payload, nextval) ==
    Row(IF "id" \in payload.has THEN payload.v.id ELSE nextval,
        IF "type_tag" \in payload.has THEN payload.v.type_tag ELSE PyNone,
        IF "description" \in payload.has THEN payload.v.description ELSE PyNone,
        IF "resume" \in payload.has THEN payload.v.resume ELSE PyNone,
        IF "active" \in payload.has THEN payload.v.active ELSE TRUE,
        IF "register_at" \in payload.has THEN payload.v.register_at ELSE 0,
        IF "update_at" \in payload.has THEN payload.v.update_at ELSE 0)

\* Faulty variant: the payload replaces the record, a column it does not name
\* is reset.
SetAttrs_replace(r, payload) ==
    Row(IF "id" \in payload.has THEN payload.v.id ELSE r.id,
        IF "type_tag" \in payload.has THEN payload.v.type_tag ELSE r.type_tag,
        IF "description" \in payload.has THEN payload.v.description ELSE PyNone,
        IF "resume" \in payload.has THEN payload.v.resume ELSE r.resume,
        IF "active" \in payload.has THEN payload.v.active ELSE TRUE,
        IF "register_at" \in payload.has THEN payload.v.register_at ELSE r.register_at,
        IF "update_at" \in payload.has THEN payload.v.update_at ELSE r.update_at)

\* for key, value in payload.items(): setattr(data, key, value), as far as
\* the mapped columns go.
SetAttrs(r, payload) ==
    Row(IF "id" \in payload.has THEN payload.v.id ELSE r.id,
        IF "type_tag" \in payload.has THEN payload.v.type_tag ELSE r.type_tag,
        IF "description" \in payload.has THEN payload.v.description ELSE r.description,
        IF "resume" \in payload.has THEN payload.v.resume ELSE r.resume,
        IF "active" \in payload.has THEN payload.v.active ELSE r.active,
        IF "register_at" \in payload.has THEN payload.v.register_at ELSE r.register_at,
        IF "update_at" \in payload.has THEN payload.v.update_at ELSE r.update_at)

\* The nullable=False columns of a row hold a value.
NotNullOk(r) == r.type_tag # PyNone /\ r.resume # PyNone

\* Faulty variant: the filter on the id is left out.
QueryById_unfiltered(table, id) == table

\* cls.query().filter(cls.id == id).first()
QueryById(table, id) == {r \in table : r.id = id}

First(s) == CHOOSE r \in s : TRUE

\* if id: (None and 0 are falsy)
Truthy(id) == id # IdNone /\ id # 0

--------------------------------------------------------------------------
(* models/BaseModel.py *)

IntegrityError == Exc("IntegrityError", "constraint")

\* create(payload): [res, rows, seq].
create(table, sequence, payload) ==
    LET fromSeq == "id" \notin payload.has
        data == InsertedRow(payload, sequence + 1)
        missingTime == \E c \in RequiredTime : c \notin payload.has
        ok == /\ NotNullOk(data)
              /\ ~missingTime
              /\ QueryById(table, data.id) = {}
    IN  IF ~ConstructorAccepts(payload)
        THEN [res |-> RaisedResult(Exc("TypeError", "invalid keyword argument")),
              rows |-> table, seq |-> sequence]
        ELSE IF ok
        THEN [res |-> RecordResult(data), rows |-> table \cup {data},
              seq |-> IF fromSeq THEN sequence + 1 ELSE sequence]
        ELSE [res |-> ErrorResult(handle_exception_msg(IntegrityError,
                                                      "Failed to create Occurrence.")),
              rows |-> table,
              seq |-> IF fromSeq THEN sequence + 1 ELSE sequence]

\* get(id): the result; the store is left as it is.
get(table, id) ==
    IF Truthy(id)
    THEN IF QueryById(table, id) = {} THEN NoneResult
         ELSE RecordResult(First(QueryById(table, id)))
    ELSE ListResult(table)

IdNotFound(msg) == handle_exception_msg(Exc("BussinesRulesError", msg), "id not found.")

\* Faulty variant: the 'if not data' test is left out, a missing record is
\* answered like a found one.
update_no_check(table, id, payload) ==
    LET found == QueryById(table, id)
    IN  IF found = {}
        THEN [res |-> RecordResult(NoRow), rows |-> table]
        ELSE [res |-> RecordResult(SetAttrs(First(found), payload)),
              rows |-> (table \ found) \cup {SetAttrs(First(found), payload)}]

\* Faulty variant: an empty payload is refused.
update_rejects_empty(table, id, payload) ==
    LET found == QueryById(table, id)
    IN  IF found = {} \/ payload.has = {}
        THEN [res |-> ErrorResult(IdNotFound("Failed to update Occurrence.")),
              rows |-> table]
        ELSE [res |-> RecordResult(SetAttrs(First(found), payload)),
              rows |-> (table \ found) \cup {SetAttrs(First(found), payload)}]

\* update(id, payload): [res, rows].
update(table, id, payload) ==
    LET found == QueryById(table, id)
        data == First(found)
        new == SetAttrs(data, payload)
        ok == /\ NotNullOk(new)
              /\ QueryById(table \ {data}, new.id) = {}
    IN  IF found = {}
        THEN [res |-> ErrorResult(IdNotFound("Failed to update Occurrence.")),
              rows |-> table]
        ELSE IF ok
        THEN [res |-> RecordResult(new), rows |-> (table \ {data}) \cup {new}]
        ELSE [res |-> ErrorResult(handle_exception_msg(IntegrityError,
                                                      "Failed to update Occurrence.")),
              rows |-> table]

\* Faulty variant: the instance is returned with its attributes expired by
\* the commit, only the id is left.
delete_returns_expired(table, id) ==
    LET found == QueryById(table, id)
    IN  IF found = {}
        THEN [res |-> ErrorResult(IdNotFound("Failed to delete id from Occurrence.")),
              rows |-> table]
        ELSE [res |-> RecordResult(Row(id, PyNone, PyNone, PyNone, FALSE, 0, 0)),
              rows |-> table \ found]

\* delete(id): [res, rows].
delete(table, id) ==
    LET found == QueryById(table, id)
        data == First(found)
    IN  IF Truthy(id)
        THEN IF found = {}
             THEN [res |-> ErrorResult(IdNotFound("Failed to delete id from Occurrence.")),
                   rows |-> table]
             ELSE [res |-> RecordResult(data), rows |-> table \ {data}]
        ELSE [res |-> RaisedResult(Exc("TypeError", "delete() missing instance")),
              rows |-> table]

NoLast == [op |-> "", id |-> IdNone, payload |-> U_EMPTY, res |-> NoneResult]

StoreInit ==
    /\ rows = {}
    /\ seq = 0
    /\ last = NoLast
    /\ born = {}
    /\ gone = {}
    /\ txn = "clean"

\* The ghost: the records created and not updated or deleted since, each
\* with the payload it was created from.
Untouched(b, id) == {e \in b : e.id # id}

\* The ghost: the ids whose record a delete removed.
Removed(g, res) == IF res.kind = "record" THEN g \cup {res.row.id} ELSE g

Create ==
    /\ seq < MaxId
    /\ \E payload \in CreatePayloads :
         LET c == create(rows, seq, payload)
         IN  /\ rows' = c.rows
             /\ seq' = c.seq
             /\ last' = [op |-> "create", id |-> IdNone, payload |-> payload, res |-> c.res]
             /\ born' = IF c.res.kind = "record"
                        THEN born \cup {[id |-> c.res.row.id, payload |-> payload]}
                        ELSE born
    /\ UNCHANGED <<gone, txn>>
    /\ UNCHANGED gateVars
    /\ UNCHANGED auxVars

Get ==
    /\ \E id \in Ids :
         last' = [op |-> "get", id |-> id, payload |-> U_EMPTY, res |-> get(rows, id)]
    /\ UNCHANGED <<rows, seq, born, gone, txn>>
    /\ UNCHANGED gateVars
    /\ UNCHANGED auxVars

Update ==
    /\ \E id \in Ids, payload \in UpdatePayloads :
         LET u == update(rows, id, payload)
         IN  /\ rows' = u.rows
             /\ last' = [op |-> "update", id |-> id, payload |-> payload, res |-> u.res]
             /\ born' = Untouched(born, id)
    /\ UNCHANGED <<seq, gone, txn>>
    /\ UNCHANGED gateVars
    /\ UNCHANGED auxVars

Delete ==
    /\ \E id \in Ids :
         LET d == delete(rows, id)
         IN  /\ rows' = d.rows
             /\ last' = [op |-> "delete", id |-> id, payload |-> U_EMPTY, res |-> d.res]
             /\ born' = Untouched(born, id)
             /\ gone' = Removed(gone, d.res)
    /\ UNCHANGED <<seq, txn>>
    /\ UNCHANGED gateVars
    /\ UNCHANGED auxVars

StoreNext == Create \/ Get \/ Update \/ Delete

--------------------------------------------------------------------------
(* models/BaseModel.py over a session whose statements can fail *)

\* Where the persistence layer raises during an operation: nowhere, at the
\* SELECT of cls.query()...first()/all(), at the flush of session.commit()
\* (INSERT, UPDATE, DELETE), or at its COMMIT.
Faults == {"none", "query", "flush", "commit"}

\* Raised by the statement that failed.
OperationalError == Exc("OperationalError", "connection")

\* Raised by every statement on a session whose transaction has failed and
\* has not been rolled back.
PendingRollbackError == Exc("PendingRollbackError", "rollback required")

\* The SQLAlchemyError classes of the model.
SQLAlchemyErrorClasses == {"IntegrityError", "OperationalError", "PendingRollbackError"}

\* The exception the first statement of an operation raises, if any.
FirstStatementFails(t, fault, at) == t = "failed" \/ fault \in at

StatementError(t) == IF t = "failed" THEN PendingRollbackError ELSE OperationalError

\* create(payload) on a session in state t: [res, rows, seq, txn].
session_create(t, fault, table, sequence, payload) ==
    LET c == create(table, sequence, payload)
    IN  IF ~ConstructorAccepts(payload)
        THEN [res |-> c.res, rows |-> table, seq |-> sequence, txn |-> t]
        ELSE IF FirstStatementFails(t, fault, {"flush", "commit"})
        THEN [res |-> ErrorResult(handle_exception_msg(StatementError(t),
                                                      "Failed to create Occurrence.")),
              rows |-> table, seq |-> sequence, txn |-> "clean"]
        ELSE [res |-> c.res, rows |-> c.rows, seq |-> c.seq, txn |-> "clean"]

\* get(id) on a session in state t: [res, txn].  The except clause returns
\* the Error and leaves the session as the failure left it.
session_get(t, fault, table, id) ==
    IF FirstStatementFails(t, fault, {"query"})
    THEN [res |-> ErrorResult(handle_exception_msg(StatementError(t),
                                                  "Error querying Occurrence")),
          txn |-> "failed"]
    ELSE [res |-> get(table, id), txn |-> "clean"]

\* update(id, payload) on a session in state t: [res, rows, txn].
session_update(t, fault, table, id, payload) ==
    LET u == update(table, id, payload)
    IN  IF \/ FirstStatementFails(t, fault, {"query"})
           \/ (QueryById(table, id) # {} /\ fault \in {"flush", "commit"})
        THEN [res |-> ErrorResult(handle_exception_msg(StatementError(t),
                                                      "Failed to update Occurrence.")),
              rows |-> table, txn |-> "clean"]
        ELSE [res |-> u.res, rows |-> u.rows, txn |-> "clean"]

\* delete(id) on a session in state t: [res, rows, txn].  The except clause
\* has no rollback: after a failed SELECT or COMMIT the transaction stays
\* failed; a failed flush is rolled back by session.commit() itself.
session_delete(t, fault, table, id) ==
    LET d == delete(table, id)
    IN  IF ~Truthy(id)
        THEN [res |-> d.res, rows |-> table, txn |-> t]
        ELSE IF FirstStatementFails(t, fault, {"query"})
        THEN [res |-> ErrorResult(handle_exception_msg(StatementError(t),
                                                      "Failed to delete Occurrence.")),
              rows |-> table, txn |-> "failed"]
        ELSE IF QueryById(table, id) # {} /\ fault \in {"flush", "commit"}
        THEN [res |-> ErrorResult(handle_exception_msg(OperationalError,
                                                      "Failed to delete Occurrence.")),
              rows |-> table,
              txn |-> IF fault = "commit" THEN "failed" ELSE "clean"]
        ELSE [res |-> d.res, rows |-> d.rows, txn |-> "clean"]

\* The payloads the operations are called with where statements can fail.
FaultyCreatePayloads == {P_LEAK, P_NO_RESUME, P_BOGUS}
FaultyUpdatePayloads == {U_RESUME, U_NULL}

FaultyCreate ==
    /\ seq < MaxId
    /\ \E payload \in FaultyCreatePayloads, fault \in Faults :
         LET c == session_create(txn, fault, rows, seq, payload)
         IN  /\ rows' = c.rows
             /\ seq' = c.seq
             /\ txn' = c.txn
             /\ last' = [op |-> "create", id |-> IdNone, payload |-> payload, res |-> c.res]
             /\ born' = IF c.res.kind = "record"
                        THEN born \cup {[id |-> c.res.row.id, payload |-> payload]}
                        ELSE born
    /\ UNCHANGED gone
    /\ UNCHANGED gateVars
    /\ UNCHANGED auxVars

FaultyGet ==
    /\ \E id \in Ids, fault \in Faults :
         LET g == session_get(txn, fault, rows, id)
         IN  /\ txn' = g.txn
             /\ last' = [op |-> "get", id |-> id, payload |-> U_EMPTY, res |-> g.res]
    /\ UNCHANGED <<rows, seq, born, gone>>
    /\ UNCHANGED gateVars
    /\ UNCHANGED auxVars

FaultyUpdate ==
    /\ \E id \in Ids, payload \in FaultyUpdatePayloads, fault \in Faults :
         LET u == session_update(txn, fault, rows, id, payload)
         IN  /\ rows' = u.rows
             /\ txn' = u.txn
             /\ last' = [op |-> "update", id |-> id, payload |-> payload, res |-> u.res]
             /\ born' = Untouched(born, id)
    /\ UNCHANGED <<seq, gone>>
    /\ UNCHANGED gateVars
    /\ UNCHANGED auxVars

FaultyDelete ==
    /\ \E id \in Ids, fault \in Faults :
         LET d == session_delete(txn, fault, rows, id)
         IN  /\ rows' = d.rows
             /\ txn' = d.txn
             /\ last' = [op |-> "delete", id |-> id, payload |-> U_EMPTY, res |-> d.res]
             /\ born' = Untouched(born, id)
             /\ gone' = Removed(gone, d.res)
    /\ UNCHANGED seq
    /\ UNCHANGED gateVars
    /\ UNCHANGED auxVars

\* __main__.py, session_clear: db.session.remove() at the end of the request;
\* the next request's operations run on a new session.
SessionRemove ==
    /\ txn' = "clean"
    /\ last' = NoLast
    /\ UNCHANGED <<rows, seq, born, gone>>
    /\ UNCHANGED gateVars
    /\ UNCHANGED auxVars

FaultyNext == FaultyCreate \/ FaultyGet \/ FaultyUpdate \/ FaultyDelete \/ SessionRemove

--------------------------------------------------------------------------
(* Text: a Python str as the sequence of its characters *)

LowerCase == <<"a", "b", "c", "d", "e", "f", "g", "h", "i", "j", "k", "l", "m", "n", "o", "p", "q", "r", "s", "t", "u", "v", "w", "x", "y", "z">>
UpperCase == <<"A", "B", "C", "D", "E", "F", "G", "H", "I", "J", "K", "L", "M", "N", "O", "P", "Q", "R", "S", "T", "U", "V", "W", "X", "Y", "Z">>
Digits == <<"0", "1", "2", "3", "4", "5", "6", "7", "8", "9">>

IsLower(c) == \E i \in 1..26 : LowerCase[i] = c
IsUpper(c) == \E i \in 1..26 : UpperCase[i] = c
IsDigit(c) == \E i \in 1..10 : Digits[i] = c

\* str.upper() and str.lower() of one character.
Upper(c) == IF IsLower(c) THEN UpperCase[CHOOSE i \in 1..26 : LowerCase[i] = c] ELSE c
Lower(c) == IF IsUpper(c) THEN LowerCase[CHOOSE i \in 1..26 : UpperCase[i] = c] ELSE c

\* str.isupper(): a cased character, and no lower-case one.
IsUpperStr(s) ==
    /\ \E i \in 1..Len(s) : IsUpper(s[i])
    /\ \A i \in 1..Len(s) : ~IsLower(s[i])

\* str.isnumeric(), for ASCII text.
IsNumericStr(s) == s # <<>> /\ \A i \in 1..Len(s) : IsDigit(s[i])

\* The characters of the attribute names and of the stored strings.
Chars ==
    ("id" :> <<"i", "d">>) @@
    ("type_tag" :> <<"t", "y", "p", "e", "_", "t", "a", "g">>) @@
    ("description" :> <<"d", "e", "s", "c", "r", "i", "p", "t", "i", "o", "n">>) @@
    ("resume" :> <<"r", "e", "s", "u", "m", "e">>) @@
    ("active" :> <<"a", "c", "t", "i", "v", "e">>) @@
    ("register_at" :> <<"r", "e", "g", "i", "s", "t", "e", "r", "_", "a", "t">>) @@
    ("update_at" :> <<"u", "p", "d", "a", "t", "e", "_", "a", "t">>) @@
    ("_sa_instance_state" :> <<"_", "s", "a", "_", "i", "n", "s", "t", "a", "n", "c", "e", "_", "s", "t", "a", "t", "e">>) @@
    ("bogus" :> <<"b", "o", "g", "u", "s">>) @@
    ("leak" :> <<"l", "e", "a", "k">>) @@
    ("noise" :> <<"n", "o", "i", "s", "e">>) @@
    ("d_1" :> <<"d", "_", "1">>) @@
    ("d_2" :> <<"d", "_", "2">>) @@
    ("pipe burst" :> <<"p", "i", "p", "e", " ", "b", "u", "r", "s", "t">>) @@
    ("pipe_burst" :> <<"p", "i", "p", "e", "_", "b", "u", "r", "s", "t">>) @@
    ("r" :> <<"r">>) @@
    ("fixed" :> <<"f", "i", "x", "e", "d">>)

\* The attribute name or stored string with the characters t; a text that is
\* none of them stands for an unknown key.
Name(t) ==
    IF \E n \in DOMAIN Chars : Chars[n] = t
    THEN CHOOSE n \in DOMAIN Chars : Chars[n] = t
    ELSE "bogus"

\* str(n) of a small natural number.
str(n) ==
    IF n < 10 THEN <<Digits[n + 1]>>
    ELSE <<Digits[(n \div 10) + 1], Digits[(n % 10) + 1]>>

\* %H of strftime.
TwoDigits(n) == <<Digits[(n \div 10) + 1], Digits[(n % 10) + 1]>>

\* A stored timestamp counts the hours since 2024-01-01 00:00:00.
\* strftime('%Y-%m-%dT%H:%M:%S') of the moment h hours after that, for
\* -24 <= h < 24.
strftime(h) ==
    (IF h < 0 THEN <<"2", "0", "2", "3", "-", "1", "2", "-", "3", "1">> ELSE <<"2", "0", "2", "4", "-", "0", "1", "-", "0", "1">>)
        \o <<"T">> \o TwoDigits(h % 24) \o <<":", "0", "0", ":", "0", "0">>

--------------------------------------------------------------------------
(* humps: camelize of a str, decamelize of a key *)

\* [\-_\s]
IsSeparator(c) == c \in {"-", "_", " "}

\* UNDERSCORE_RE.sub(lambda m: m.group(0)[-1].upper(), s) from position i:
\* a run of separators that follows a non-separator is replaced, with the
\* character after it, by that character in upper case.
RECURSIVE CamelizeFrom(_, _)
CamelizeFrom(s, i) ==
    IF i > Len(s) THEN <<>>
    ELSE IF IsSeparator(s[i]) /\ i > 1 /\ ~IsSeparator(s[i - 1])
    THEN LET after == {j \in i..Len(s) : ~IsSeparator(s[j])}
         IN  IF after = {} THEN SubSeq(s, i, Len(s))
             ELSE LET j == CHOOSE k \in after : \A m \in after : k <= m
                  IN  <<Upper(s[j])>> \o CamelizeFrom(s, j + 1)
    ELSE <<s[i]>> \o CamelizeFrom(s, i + 1)

\* humps.camelize(s) of a str: the whole text is converted, whatever it holds.
camelize(s) ==
    IF IsUpperStr(s) \/ IsNumericStr(s) THEN s
    ELSE IF s # <<>> /\ ~IsUpperStr(SubSeq(s, 1, IF Len(s) < 2 THEN Len(s) ELSE 2))
    THEN CamelizeFrom(<<Lower(s[1])>> \o Tail(s), 1)
    ELSE CamelizeFrom(s, 1)

\* separate_words(s).lower() from position i, for a key in which every
\* capital letter follows a lower-case letter or a digit: each capital
\* starts a new word.
RECURSIVE DecamelizeFrom(_, _)
DecamelizeFrom(s, i) ==
    IF i > Len(s) THEN <<>>
    ELSE IF IsUpper(s[i]) /\ i > 1
    THEN <<"_", Lower(s[i])>> \o DecamelizeFrom(s, i + 1)
    ELSE <<Lower(s[i])>> \o DecamelizeFrom(s, i + 1)

\* humps.decamelize(s) of one key of a Mapping.
decamelize(s) ==
    IF IsUpperStr(s) \/ IsNumericStr(s) THEN s ELSE DecamelizeFrom(s, 1)

--------------------------------------------------------------------------
(* models/Occurrence.py, models/BaseModel.py: the JSON projection *)

\* A Python value: a str, a bool, a number, None, or an object that is none
\* of these.
PyVal(t, s, b, n) == [t |-> t, s |-> s, b |-> b, n |-> n]
PyStr(s) == PyVal("str", s, FALSE, 0)
PyBool(b) == PyVal("bool", <<>>, b, 0)
PyNum(n) == PyVal("num", <<>>, FALSE, n)
PyNull == PyVal("none", <<>>, FALSE, 0)
PyObject == PyVal("object", <<>>, FALSE, 0)

\* A mapped instance: its row, and whether its attributes are loaded (a
\* commit expires them).
Instance(r, loaded) == [row |-> r, loaded |-> loaded]

ColumnOrder ==
    <<"id", "type_tag", "description", "resume", "active", "register_at", "update_at">>

\* self.__dict__: the instrumentation's _sa_instance_state, then the loaded
\* attributes.
InstanceDict(inst) ==
    <<"_sa_instance_state">> \o (IF inst.loaded THEN ColumnOrder ELSE <<>>)

\* json_type(getattr(self, k))
AttrValue(r, k) ==
    CASE k = "_sa_instance_state" -> PyObject
      [] k = "id" -> PyNum(r.id)
      [] k = "active" -> PyBool(r.active)
      [] k \in {"register_at", "update_at"} -> PyNum(r[k])
      [] OTHER -> IF r[k] = PyNone THEN PyNull ELSE PyStr(Chars[r[k]])

\* A dict: the sequence of its items, in insertion order.
Item(k, v) == [k |-> k, v |-> v]

\* as_dict(exclude)
as_dict(inst, exclude) ==
    LET keys == SelectSeq(InstanceDict(inst), LAMBDA k : k \notin exclude)
    IN  [i \in 1..Len(keys) |-> Item(keys[i], AttrValue(inst.row, keys[i]))]

\* data[k] = v
SetItem(d, k, v) ==
    IF \E i \in 1..Len(d) : d[i].k = k
    THEN [i \in 1..Len(d) |-> IF d[i].k = k THEN Item(k, v) ELSE d[i]]
    ELSE Append(d, Item(k, v))

Quote(s) == <<"\"">> \o s \o <<"\"">>

JsonValue(v) ==
    CASE v.t = "str" -> Quote(v.s)
      [] v.t = "bool" -> IF v.b THEN <<"t", "r", "u", "e">> ELSE <<"f", "a", "l", "s", "e">>
      [] v.t = "num" -> str(v.n)
      [] OTHER -> <<"n", "u", "l", "l">>

RECURSIVE JsonItems(_, _)
JsonItems(d, i) ==
    IF i > Len(d) THEN <<>>
    ELSE (IF i > 1 THEN <<",", " ">> ELSE <<>>)
         \o Quote(Chars[d[i].k]) \o <<":", " ">> \o JsonValue(d[i].v)
         \o JsonItems(d, i + 1)

\* json.dumps(data): only str, bool, numbers and None can be written.
json_dumps(d) ==
    IF \E i \in 1..Len(d) : d[i].v.t = "object"
    THEN Raises(Exc("TypeError", "Object of type InstanceState is not JSON serializable"),
                <<>>)
    ELSE Returns(<<"{">> \o JsonItems(d, 1) \o <<"}">>)

\* What to_json gives its caller: the JSON text, or an Error value.
TextView(t) == [kind |-> "text", text |-> t, error |-> NoError]
ErrorView(e) == [kind |-> "error", text |-> <<>>, error |-> e]
NoneView == [kind |-> "none", text |-> <<>>, error |-> NoError]

\* Occurrence.to_json()
to_json(inst) ==
    LET r == inst.row
        data == as_dict(inst, {"register_at", "update_at"})
        withId == SetItem(data, "id", PyStr(str(r.id)))
        withReg == SetItem(withId, "register_at", PyStr(strftime(r.register_at - 3)))
        withUpd == SetItem(withReg, "update_at", PyStr(strftime(r.update_at - 3)))
        dumped == json_dumps(withUpd)
    IN  IF dumped.raised
        THEN ErrorView(handle_exception_msg(dumped.exc, "Failed to convert to JSON."))
        ELSE TextView(camelize(dumped.val))

--------------------------------------------------------------------------
(* controllers/OccurrenceController.py, view/occurrence.py: create over HTTP *)

RaisedView(e) == [kind |-> "raised", text |-> <<>>, error |-> Error(e, "")]

\* A request body: its keys as sent, and the value of each field.
ApiPayload(keys, v) == [keys |-> keys, v |-> v]

TYPE_TAG == <<"t", "y", "p", "e", "T", "a", "g">>
RESUME == <<"r", "e", "s", "u", "m", "e">>
ACTIVE == <<"a", "c", "t", "i", "v", "e">>
DESCRIPTION == <<"d", "e", "s", "c", "r", "i", "p", "t", "i", "o", "n">>
REGISTER_AT == <<"r", "e", "g", "i", "s", "t", "e", "r", "A", "t">>
UPDATE_AT == <<"u", "p", "d", "a", "t", "e", "A", "t">>

\* occurrence_model: the keys a body must hold to pass validation.
RequiredKeys ==
    {Chars[n] : n \in {"type_tag", "resume", "active", "register_at", "update_at"}}

\* The bodies POST is called with: five that pass validation, one with
\* camelCase keys only, one without resume.
ApiPayloads ==
    {ApiPayload(RequiredKeys, Vals(0, "leak", "", "pipe burst", TRUE, 5, 5, "")),
     ApiPayload(RequiredKeys \cup {DESCRIPTION},
                Vals(0, "noise", "d_1", "pipe_burst", FALSE, 3, 4, "")),
     ApiPayload(RequiredKeys, Vals(0, "leak", "", "r", FALSE, 1, 2, "")),
     ApiPayload(RequiredKeys \cup {DESCRIPTION},
                Vals(0, "noise", "d_2", "fixed", TRUE, 4, 4, "")),
     ApiPayload(RequiredKeys, Vals(0, "noise", "", "pipe_burst", TRUE, 5, 5, "")),
     ApiPayload({TYPE_TAG, RESUME, ACTIVE, REGISTER_AT, UPDATE_AT},
                Vals(0, "leak", "", "pipe burst", TRUE, 5, 5, "")),
     ApiPayload(RequiredKeys \ {RESUME}, Vals(0, "leak", "", "", TRUE, 5, 5, ""))}

\* @api.expect(occurrence_create, validate=True)
Valid(body) == RequiredKeys \subseteq body.keys

\* humps.decamelize(api.payload): the keys are converted, the values kept.
decamelize_payload(body) ==
    Payload({Name(decamelize(k)) : k \in body.keys}, body.v)

\* OccurrenceController.create(payload): [res, rows, seq]. The instance is
\* added and committed as in BaseMixInModel.create; the commit expires it.
controller_create(table, sequence, payload) ==
    LET c == create(table, sequence, payload)
    IN  [res |-> CASE c.res.kind = "record" -> to_json(Instance(c.res.row, FALSE))
                   [] c.res.kind = "error" ->
                        ErrorView(handle_exception_msg(IntegrityError,
                                                       "Failed to create Occurrence"))
                   [] OTHER -> RaisedView(c.res.exc),
         row |-> c.res.row, rows |-> c.rows, seq |-> c.seq]

OK == 200
BAD_REQUEST == 400
FORBIDDEN == 403

\* No request served yet.
NoView == [op |-> ""]

\* POST /occurrence
Post ==
    /\ seq < MaxId
    /\ \E body \in ApiPayloads :
         LET payload == decamelize_payload(body)
             c == controller_create(rows, seq, payload)
         IN  IF ~Valid(body)
             THEN /\ view' = [op |-> "post", row |-> NoRow, res |-> NoneView,
                              list |-> {}, status |-> BAD_REQUEST]
                  /\ UNCHANGED <<rows, seq, born>>
             ELSE /\ rows' = c.rows
                  /\ seq' = c.seq
                  /\ born' = IF c.rows # rows
                             THEN born \cup {[id |-> c.row.id, payload |-> payload]}
                             ELSE born
                  /\ view' = [op |-> "post", row |-> c.row, res |-> c.res, list |-> {},
                              status |-> IF c.res.kind = "error" THEN FORBIDDEN ELSE OK]
    /\ UNCHANGED <<last, gone, txn, grp, rq, cc>>
    /\ UNCHANGED gateVars

\* get(id, to_json=True)
GetToJson ==
    /\ \E id \in Ids :
         LET g == get(rows, id)
         IN  view' = [op |-> "get", row |-> g.row,
                      res |-> IF g.kind = "record"
                              THEN to_json(Instance(g.row, TRUE))
                              ELSE NoneView,
                      list |-> {[row |-> r, res |-> to_json(Instance(r, TRUE))] :
                                   r \in g.list},
                      status |-> 0]
    /\ UNCHANGED <<grp, rq, cc>>
    /\ UNCHANGED storeVars
    /\ UNCHANGED gateVars

ProjectionNext == Post \/ GetToJson

--------------------------------------------------------------------------
(* get_group: the records that match a filter mapping *)

MaxGroup == 3

F_EMPTY == Payload({}, Pad)
F_LEAK == Payload({"type_tag"}, Vals(0, "leak", "", "", FALSE, 0, 0, ""))
F_LEAK_BOGUS == Payload({"type_tag", "bogus"}, Vals(0, "leak", "", "", FALSE, 0, 0, "x"))

\* The filters get_group is called with.
Filters ==
    {F_EMPTY, F_LEAK, F_LEAK_BOGUS,
     Payload({"type_tag", "resume"}, Vals(0, "leak", "", "r", FALSE, 0, 0, "")),
     Payload({"type_tag", "resume"}, Vals(0, "noise", "", "r", FALSE, 0, 0, "")),
     Payload({"resume"}, Vals(0, "", "", "fixed", FALSE, 0, 0, "")),
     Payload({"bogus"}, Vals(0, "", "", "", FALSE, 0, 0, "x"))}

\* The payloads the grouped records are created with.
GroupPayloads == {P_LEAK, P_NOISE, P_MIN}

\* Faulty variant: a record matches when one pair of the filter matches.
get_group_any(table, filter) ==
    ListResult({r \in table : \E k \in filter.has \cap Columns : r[k] = filter.v[k]})

\* get_group(filter): the records that equal the filter on each of its keys
\* that names a field.
get_group(table, filter) ==
    ListResult({r \in table : \A k \in filter.has \cap Columns : r[k] = filter.v[k]})

\* No group asked for yet.
NoGroup == [op |-> ""]

\* create(payload), up to MaxGroup records.
GroupCreate ==
    /\ seq < MaxGroup
    /\ \E payload \in GroupPayloads :
         LET c == create(rows, seq, payload)
         IN  /\ rows' = c.rows
             /\ seq' = c.seq
             /\ last' = [op |-> "create", id |-> IdNone, payload |-> payload, res |-> c.res]
             /\ born' = IF c.res.kind = "record"
                        THEN born \cup {[id |-> c.res.row.id, payload |-> payload]}
                        ELSE born
    /\ UNCHANGED <<gone, txn>>
    /\ UNCHANGED gateVars
    /\ UNCHANGED auxVars

\* get_group(filter)
GetGroup ==
    /\ \E filter \in Filters :
         grp' = [op |-> "get_group", filter |-> filter, res |-> get_group(rows, filter)]
    /\ UNCHANGED <<view, rq, cc>>
    /\ UNCHANGED storeVars
    /\ UNCHANGED gateVars

GroupNext == GroupCreate \/ GetGroup

--------------------------------------------------------------------------
(* __main__.py: one session per request *)

\* An uncommitted change of a session: the record with the id i reads row
\* (NoRow: it is deleted) inside the session's transaction.
Change(i, row) == [id |-> i, row |-> row]

\* The table as the statements of a session with the uncommitted changes
\* pending read it.
Apply(table, pending) ==
    {r \in table : \A c \in pending : c.id # r.id}
        \cup {c.row : c \in {x \in pending : x.row # NoRow}}

\* Session.is_active
is_active(state) == state = "clean"

\* Faulty variant: the session is kept for the next request, its changes are
\* rolled back only after an exception.
session_clear_keeps_session(pending, state, exception) ==
    IF exception /\ is_active(state)
    THEN [pending |-> {}, state |-> "clean"]
    ELSE [pending |-> pending, state |-> state]

\* session_clear(exception): db.session.remove() closes the request's session,
\* which rolls its transaction back; db.session is then a new session, on
\* which the conditional rollback has nothing to undo.
session_clear(pending, state, exception) ==
    [pending |-> {}, state |-> "clean"]

\* Before the first request: a new session, nothing discarded yet.
NoRequest == [phase |-> "idle", pending |-> {}, state |-> "clean", dropped |-> {}]

\* The request's state after its handler returned or raised; carried is
\* what its session held when the request began, dropped what the last
\* teardown discarded.
Served(op, id, exception, pending, state, res) ==
    [phase |-> "served", op |-> op, id |-> id, exception |-> exception,
     pending |-> pending, state |-> state, res |-> res, carried |-> rq.pending,
     dropped |-> rq.dropped]

RequestPayloads == {P_LEAK, P_MIN}
RequestUpdates == {U_RESUME, U_DESC}
RequestFaults == {"none", "commit"}

\* A request that calls create(payload).
RqCreate ==
    /\ rq.phase = "idle"
    /\ seq < MaxId
    /\ \E payload \in RequestPayloads :
         LET c == session_create(rq.state, "none", Apply(rows, rq.pending), seq, payload)
             committed == c.res.kind = "record"
         IN  /\ rows' = IF committed THEN c.rows ELSE rows
             /\ seq' = c.seq
             /\ rq' = Served("create", IdNone, c.res.kind = "raised", {}, c.txn, c.res)
    /\ UNCHANGED <<last, born, gone, txn, view, grp, cc>>
    /\ UNCHANGED gateVars

\* A request that calls get(id).
RqGet ==
    /\ rq.phase = "idle"
    /\ \E id \in Ids :
         LET g == session_get(rq.state, "none", Apply(rows, rq.pending), id)
         IN  rq' = Served("get", id, FALSE, rq.pending, g.txn, g.res)
    /\ UNCHANGED <<view, grp, cc>>
    /\ UNCHANGED storeVars
    /\ UNCHANGED gateVars

\* A request that calls update(id, payload).  With abort, an exception that
\* is not an SQLAlchemyError ends the handler between the setattr loop and
\* the return of commit(): the changed attributes stay uncommitted and the
\* exception leaves the handler.
RqUpdate ==
    /\ rq.phase = "idle"
    /\ \E id \in Ids, payload \in RequestUpdates, fault \in RequestFaults, abort \in BOOLEAN :
         LET sees == Apply(rows, rq.pending)
             found == QueryById(sees, id)
             u == session_update(rq.state, fault, sees, id, payload)
             committed == u.res.kind = "record"
         IN  IF abort /\ is_active(rq.state) /\ found # {}
             THEN /\ rq' = Served("update", id, TRUE,
                                  rq.pending \cup {Change(id, SetAttrs(First(found), payload))},
                                  rq.state,
                                  RaisedResult(Exc("TypeError", "attribute name must be string")))
                  /\ rows' = rows
             ELSE IF is_active(rq.state) /\ found = {}
             THEN /\ rq' = Served("update", id, FALSE, rq.pending, rq.state, u.res)
                  /\ rows' = rows
             ELSE /\ rq' = Served("update", id, FALSE, {}, u.txn, u.res)
                  /\ rows' = IF committed THEN u.rows ELSE rows
    /\ UNCHANGED <<seq, last, born, gone, txn, view, grp, cc>>
    /\ UNCHANGED gateVars

\* A request that calls delete(id).  When COMMIT fails the DELETE stays
\* flushed in the session's transaction: the except clause has no rollback.
RqDelete ==
    /\ rq.phase = "idle"
    /\ \E id \in Ids, fault \in RequestFaults :
         LET sees == Apply(rows, rq.pending)
             d == session_delete(rq.state, fault, sees, id)
             committed == d.res.kind = "record"
             flushed == /\ is_active(rq.state) /\ Truthy(id)
                        /\ QueryById(sees, id) # {} /\ fault = "commit"
         IN  /\ rq' = Served("delete", id, d.res.kind = "raised",
                             IF committed THEN {}
                             ELSE IF flushed THEN rq.pending \cup {Change(id, NoRow)}
                             ELSE rq.pending,
                             d.txn, d.res)
             /\ rows' = IF committed THEN d.rows ELSE rows
    /\ UNCHANGED <<seq, last, born, gone, txn, view, grp, cc>>
    /\ UNCHANGED gateVars

\* @app.teardown_request: session_clear(exception), after every request.
Teardown ==
    /\ rq.phase = "served"
    /\ LET c == session_clear(rq.pending, rq.state, rq.exception)
       IN  rq' = [rq EXCEPT !.phase = "idle", !.pending = c.pending, !.state = c.state,
                            !.dropped = rq.pending \ c.pending]
    /\ UNCHANGED <<view, grp, cc>>
    /\ UNCHANGED storeVars
    /\ UNCHANGED gateVars

RequestNext == RqCreate \/ RqGet \/ RqUpdate \/ RqDelete \/ Teardown

--------------------------------------------------------------------------
(* models/BaseModel.py: two requests update one record, each on its session *)

Requesters == {"A", "B"}

\* The payloads the two requests call update with, and the payloads the
\* record they update was created with.
RacePayloads ==
    {U_RESUME, U_DESC,
     Payload({"resume"}, Vals(0, "", "", "r", FALSE, 0, 0, "")),
     Payload({"description", "resume"}, Vals(0, "", "d_1", "fixed", FALSE, 0, 0, ""))}
RaceRecords == {P_MIN, P_NOISE}

\* The columns an UPDATE of the flushed instance sets: the attributes whose
\* value differs from the value that was loaded.
NetChange(loaded, payload) ==
    {c \in payload.has \cap Columns : SetAttrs(loaded, payload)[c] # loaded[c]}

\* UPDATE occurrence SET <columns> WHERE id = <id of the loaded row>
Written(r, columns, payload) ==
    [c \in DOMAIN r |-> IF c \in columns THEN payload.v[c] ELSE r[c]]

\* One request: where its update stands, what it was called with, the row
\* its SELECT loaded, the columns its UPDATE sets, and what it returned.
Requester(at, payload, loaded, columns, res) ==
    [at |-> at, payload |-> payload, loaded |-> loaded, columns |-> columns, res |-> res]

\* Before the two requests arrive.
NoRace == [id |-> IdNone]

\* A record is created, then two requests arrive that update it.
RaceBegin ==
    /\ cc.id = IdNone
    /\ rows = {}
    /\ \E record \in RaceRecords, pa \in RacePayloads, pb \in RacePayloads :
         LET c == create(rows, seq, record)
         IN  /\ rows' = c.rows
             /\ seq' = c.seq
             /\ cc' = [id |-> c.res.row.id, lock |-> "", order |-> <<>>,
                       A |-> Requester("start", pa, NoRow, {}, NoneResult),
                       B |-> Requester("start", pb, NoRow, {}, NoneResult)]
    /\ UNCHANGED <<last, born, gone, txn, view, grp, rq>>
    /\ UNCHANGED gateVars

\* data = cls.query().filter(cls.id == id).first()
RaceLoad ==
    /\ cc.id # IdNone
    /\ \E p \in Requesters :
         /\ cc[p].at = "start"
         /\ cc' = [cc EXCEPT ![p].at = "loaded",
                             ![p].loaded = First(QueryById(rows, cc.id))]
    /\ UNCHANGED <<view, grp, rq>>
    /\ UNCHANGED storeVars
    /\ UNCHANGED gateVars

\* The setattr loop and the flush of session.commit(): the UPDATE locks the
\* row until the transaction ends, and waits while the other request holds
\* the lock; an instance without net change is not written.
RaceFlush ==
    /\ cc.id # IdNone
    /\ \E p \in Requesters :
         /\ cc[p].at = "loaded"
         /\ cc.lock = ""
         /\ LET columns == NetChange(cc[p].loaded, cc[p].payload)
            IN  cc' = [cc EXCEPT ![p].at = "flushed",
                                 ![p].columns = columns,
                                 !.lock = IF columns = {} THEN "" ELSE p]
    /\ UNCHANGED <<view, grp, rq>>
    /\ UNCHANGED storeVars
    /\ UNCHANGED gateVars

\* The COMMIT of session.commit(), and return data.
RaceCommit ==
    /\ cc.id # IdNone
    /\ \E p \in Requesters :
         /\ cc[p].at = "flushed"
         /\ LET old == First(QueryById(rows, cc.id))
                new == Written(old, cc[p].columns, cc[p].payload)
            IN  /\ rows' = (rows \ {old}) \cup {new}
                /\ cc' = [cc EXCEPT ![p].at = "done",
                                    ![p].res = RecordResult(new),
                                    !.order = Append(cc.order, p),
                                    !.lock = IF cc.lock = p THEN "" ELSE cc.lock]
    /\ UNCHANGED <<seq, last, born, gone, txn, view, grp, rq>>
    /\ UNCHANGED gateVars

ConcurrentNext == RaceBegin \/ RaceLoad \/ RaceFlush \/ RaceCommit

--------------------------------------------------------------------------
(* Initial values of the remaining variables *)

AuxInit ==
    /\ view = NoView
    /\ grp = NoGroup
    /\ rq = NoRequest
    /\ cc = NoRace

--------------------------------------------------------------------------
(* Specifications *)

Init == GateInit /\ StoreInit /\ AuxInit

\* The gate alone, the store alone, the store over a session whose statements
\* can fail, and gate and store together.
GateSpec == Init /\ [][GateNext]_vars
StoreSpec == Init /\ [][StoreNext]_vars
FaultySpec == Init /\ [][FaultyNext]_vars

ProjectionSpec == Init /\ [][ProjectionNext]_vars

GroupSpec == Init /\ [][GroupNext]_vars

RequestSpec == Init /\ [][RequestNext]_vars

ConcurrentSpec == Init /\ [][ConcurrentNext]_vars

Next == GateNext \/ StoreNext

Spec == Init /\ [][Next]_vars

--------------------------------------------------------------------------
(* Vocabulary of the properties of the gate.  These describe the request and
   the provider directly; they do not use the gate's own operators. *)

Done == pc = "done"

\* The wrapped operation ran.
Authorized == Done /\ calls # <<>>

\* The gate gave back the tuple (authorization Error, 403).
Rejected403 ==
    /\ Done
    /\ ~out.raised
    /\ out.val.status = 403
    /\ out.val.error.message = "Authentication failed or user without permission."
    /\ out.val.error.exception # NoExc

\* An exception left the gate.
Propagated == Done /\ out.raised

HeaderHasSpace == \E i \in DOMAIN req.authorization : req.authorization[i] = SP

\* The header is <scheme> <token>[ ...] and the token is the request's token.
TokenPresented ==
    /\ req.has_auth
    /\ \E i \in DOMAIN req.authorization :
         /\ req.authorization[i] = SP
         /\ \A j \in 1..(i - 1) : req.authorization[j] # SP
         /\ i + 1 \in DOMAIN req.authorization
         /\ req.authorization[i + 1] = JWT
         /\ (i + 2 \in DOMAIN req.authorization => req.authorization[i + 2] = SP)

\* The keys the provider lists for signing.
ListedSigKeys ==
    IF idp.certs.empty THEN {}
    ELSE {idp.certs.keys[i].x5c : i \in {j \in DOMAIN idp.certs.keys :
                                             idp.certs.keys[j].use = "sig"}}

SigIndices ==
    IF idp.certs.empty THEN {}
    ELSE {j \in DOMAIN idp.certs.keys : idp.certs.keys[j].use = "sig"}

\* The provider answers, and the token is signed with the key of the last
\* certificate it lists for signing (the key the gate fetches).
CorrectlySigned ==
    /\ idp.up
    /\ SigIndices # {}
    /\ LET i == CHOOSE k \in SigIndices : \A j \in SigIndices : j <= k
       IN  req.jwt.sig = idp.certs.keys[i].x5c

\* The realm-scoped role set a token carries.
TokenRoleSet ==
    IF req.jwt.realm_access.kind = "dict" /\ req.jwt.realm_access.has_roles
    THEN {req.jwt.realm_access.roles[i] : i \in DOMAIN req.jwt.realm_access.roles}
    ELSE {}

RequiredSet == {req.required_roles[i] : i \in DOMAIN req.required_roles}

Expired == req.jwt.exp < now

\* The request carries a token signed with the provider's signing key and not
\* expired.
ValidToken ==
    /\ TokenPresented
    /\ CorrectlySigned
    /\ ~Expired

--------------------------------------------------------------------------
(* Properties of the gate, checked under GateSpec *)

\* C1: the wrapped function runs only if, in that request, a token was
\* extracted from the Authorization header, it is signed with a signing key
\* the provider lists, it is not expired, and required_roles is a subset of
\* the token's realm roles.
C1_OnlyAfterAllChecks ==
    calls # <<>> =>
        /\ TokenPresented
        /\ idp.up
        /\ req.jwt.sig \in ListedSigKeys
        /\ ~Expired
        /\ RequiredSet \subseteq TokenRoleSet

C1_Witness == Authorized /\ RequiredSet # {}

\* C2 (as claimed): every request ends Authorized or Rejected with the
\* authorization Error and 403; when the wrapped operation did not run, the
\* outcome is that return value, never an exception leaving the gate.
C2_AuthorizedOrRejected403 ==
    Done =>
        IF calls = <<>>
        THEN Rejected403
        ELSE calls[1].result.raised \/ out = Returns(calls[1].result.val)

\* C3 (as claimed): a request without an Authorization header, or with one
\* that has no space-delimited scheme and token, is Rejected with 403 and the
\* wrapped operation does not run.
C3_NoTokenRejected403 ==
    (Done /\ (~req.has_auth \/ ~HeaderHasSpace)) => (Rejected403 /\ calls = <<>>)

\* C4 (as claimed): a correctly signed token whose expiry lies in the past is
\* Rejected with 403, whatever roles it carries.
C4_ExpiredRejected403 ==
    (Done /\ TokenPresented /\ CorrectlySigned /\ Expired)
        => (Rejected403 /\ calls = <<>>)

C6_NoRolesRejected403 ==
    (Done /\ ValidToken /\ TokenRoleSet = {}) => (Rejected403 /\ calls = <<>>)

\* C7 (as claimed): when fetching the signing key fails with a provider
\* error, the gate returns the authorization Error with 403 and the wrapped
\* operation does not run.
C7_KeyFetchFailedRejected403 ==
    (Done /\ TokenPresented /\ ~idp.up) => (Rejected403 /\ calls = <<>>)

\* C8 (as claimed): what the caller gets on rejection does not depend on the
\* check that failed.  A token lacking a role is answered with type
\* BussinesRulesError, details None, the fixed message and 403, so every
\* request the gate turns away is answered with exactly that.
C8_RejectionIndependentOfCause ==
    (Done /\ calls = <<>>) =>
        /\ ~out.raised
        /\ out.val.error.type = "BussinesRulesError"
        /\ out.val.error.details = "None"
        /\ out.val.error.message = "Authentication failed or user without permission."
        /\ out.val.status = 403

\* C9: when the gate authorizes, the wrapped operation is called exactly once
\* with the request's positional and keyword arguments, and what it returns
\* is returned by the gate unchanged.
C9_CalledOnceResultUnchanged ==
    Authorized =>
        /\ Len(calls) = 1
        /\ calls[1].call = req.call
        /\ ~calls[1].result.raised => out = Returns(calls[1].result.val)

C9_Witness ==
    /\ Authorized
    /\ req.call.kwargs # <<>>
    /\ ~calls[1].result.raised
    /\ out.val.body = "data"

--------------------------------------------------------------------------
(* Properties of the record store, checked under StoreSpec *)

\* C10: a record created from a field mapping and neither updated nor deleted
\* since is returned by get(id) with every non-identifier field equal to the
\* mapping's value, under a non-null identifier, whatever else happened to the
\* store in between.
C10_CreateGetRoundTrip ==
    \A e \in born :
        LET g == get(rows, e.id)
        IN  /\ e.id # IdNone
            /\ g.kind = "record"
            /\ g.row.id = e.id
            /\ \A c \in e.payload.has \ {"id"} : g.row[c] = e.payload.v[c]

C10_Witness ==
    /\ last.op = "get"
    /\ last.res.kind = "record"
    /\ last.res.row.description = "d_1"
    /\ Cardinality(rows) = 2
    /\ \E e \in born : e.id = last.id /\ e.payload = P_NOISE

\* A record with identifier i is stored.
Stored(table, i) == \E r \in table : r.id = i

\* The BusinessRuleError-shaped Error value of update and delete.
IsIdNotFound(res) ==
    /\ res.kind = "error"
    /\ res.error.type = "BussinesRulesError"
    /\ res.error.message = "id not found."

\* C11 (as claimed): get with an identifier given returns the record with that
\* identifier or None, for every identifier value; the list of all records is
\* returned when, and only when, the identifier is omitted.
C11_ListOnlyWhenIdOmitted ==
    last.op = "get" =>
        IF last.id = IdNone
        THEN last.res.kind = "list" /\ last.res.list = rows
        ELSE \/ /\ last.res.kind = "record"
                /\ last.res.row \in rows
                /\ last.res.row.id = last.id
             \/ /\ last.res.kind = "none"
                /\ ~Stored(rows, last.id)

\* C12: update(i, fields) on an identifier that matches no record returns the
\* BussinesRulesError 'id not found.' Error and leaves the stored records as
\* they were, as every get before and after the call shows.
C12_UpdateMissingChangesNothing ==
    [][(last'.op = "update" /\ ~Stored(rows, last'.id)) =>
          /\ IsIdNotFound(last'.res)
          /\ rows' = rows
          /\ \A i \in Ids : get(rows', i) = get(rows, i)]_vars

C12_Witness ==
    /\ last.op = "update"
    /\ last.payload = U_RESUME
    /\ IsIdNotFound(last.res)
    /\ Cardinality(rows) = 2
    /\ ~Stored(rows, last.id)

\* C13: a successful update(i, fields) gives record i the payload's value in
\* every field the payload names and its previous value in every other field;
\* every other record is as before, and none is added or removed.
C13_UpdateSetsExactlyGivenFields ==
    [][(last'.op = "update" /\ last'.res.kind = "record") =>
          \E old \in rows :
             /\ old.id = last'.id
             /\ \A c \in Columns :
                   last'.res.row[c] = IF c \in last'.payload.has
                                      THEN last'.payload.v[c] ELSE old[c]
             /\ rows' = (rows \ {old}) \cup {last'.res.row}
             /\ Cardinality(rows') = Cardinality(rows)]_vars

C13_Witness ==
    /\ last.op = "update"
    /\ last.payload = U_DESC
    /\ last.res.kind = "record"
    /\ last.res.row.description = "d_2"
    /\ last.res.row.resume = "pipe burst"
    /\ Cardinality(rows) = 2

\* C14: update(i, {}) on an existing record succeeds, returning the record,
\* and leaves the store as it was; so any number of them leaves it as it was.
C14_EmptyUpdateIdempotent ==
    [][(last'.op = "update" /\ last'.payload.has = {} /\ Stored(rows, last'.id)) =>
          /\ last'.res.kind = "record"
          /\ last'.res.row \in rows
          /\ last'.res.row.id = last'.id
          /\ rows' = rows
          /\ seq' = seq]_vars

C14_Witness ==
    /\ last.op = "update"
    /\ last.payload = U_EMPTY
    /\ last.res.kind = "record"
    /\ last.res.row.type_tag = "noise"

\* C15 (as claimed): delete(i), for every identifier i that matches no stored
\* record, returns the BussinesRulesError 'id not found.' Error, raises nothing
\* and leaves the store unchanged.
C15_DeleteMissingReturnsError ==
    [][(last'.op = "delete" /\ last'.id # IdNone /\ ~Stored(rows, last'.id)) =>
          /\ IsIdNotFound(last'.res)
          /\ rows' = rows]_vars

\* C16 (as claimed): once delete(i) has succeeded, get(i) returns None, and
\* goes on returning None whatever operations follow; the delete leaves every
\* other record as it was.
C16_DeletedStaysNotFound ==
    /\ [](\A i \in gone : get(rows, i).kind = "none")
    /\ [][(last'.op = "delete" /\ last'.res.kind = "record") =>
             rows' = {r \in rows : r.id # last'.id}]_vars

Mutating == {"create", "update", "delete"}

\* The operation returned the Error of an exception of the persistence layer.
PersistenceFailed(res) ==
    /\ res.kind = "error"
    /\ res.error.type \in SQLAlchemyErrorClasses

\* C18 (as claimed): when the persistence layer raises during a create, an
\* update or a delete, the Error is returned after a rollback: the stored
\* records are as before the operation and the session's transaction is clean
\* for the next operation.  (Checked under FaultySpec.)
C18_RollbackBeforeError ==
    [][(last'.op \in Mutating /\ PersistenceFailed(last'.res)) =>
          /\ rows' = rows
          /\ txn' = "clean"]_vars

\* C19 (as claimed): no store operation lets an exception reach its caller; a
\* failure is returned as an Error value with the exception's class name, its
\* cause and a message, and a success is not an Error.
C19_ErrorsAreValues ==
    /\ last.res.kind # "raised"
    /\ last.res.kind = "error" =>
          /\ last.res.error.type = last.res.error.exception.cls
          /\ last.res.error.type # ""
          /\ last.res.error.details = last.res.error.exception.cause
          /\ last.res.error.message # ""

\* Stored records have pairwise distinct identifiers.
DistinctIds == \A r1, r2 \in rows : r1.id = r2.id => r1 = r2

\* C20 (as claimed): stored records have pairwise distinct identifiers, no
\* operation changes the identifier of a record (an update that names the id
\* field included), and the identifier of a deleted record is never the
\* identifier of a later record.
C20_IdImmutableNeverReused ==
    /\ [](DistinctIds /\ \A i \in gone : ~Stored(rows, i))
    /\ [][(last'.op = "update" /\ last'.res.kind = "record") =>
             last'.res.row.id = last'.id]_vars

--------------------------------------------------------------------------
(* Further properties of the gate, checked under GateSpec *)

\* C26: the outcome of a check depends only on the request's token, the
\* required roles and the key the provider lists at that moment, whatever
\* earlier checks saw: the wrapped operation runs exactly when the token
\* presented is signed with the key now listed, is not expired and carries the
\* required roles.  So after a rotation a token signed with the new key is
\* accepted and one signed with the old key is not.
C26_OutcomeFromCurrentKey ==
    Done =>
        (Authorized <=>
            /\ TokenPresented
            /\ CorrectlySigned
            /\ ~Expired
            /\ TokenRoleSet # {}
            /\ RequiredSet \subseteq TokenRoleSet)

\* The provider now lists k2 for signing (it listed k1 at the start) and a
\* token signed with k2 is accepted.
C26_Witness ==
    /\ Authorized
    /\ req.jwt.sig = "k2"
    /\ ListedSigKeys = {"k1", "k2"}

\* C27 (as claimed): once the wrapped operation has been invoked, an exception
\* it raises is never answered by the gate with the authorization Error and
\* 403; it leaves the gate as raised.
C27_HandlerErrorNotRejected ==
    (Done /\ calls # <<>> /\ calls[1].result.raised) =>
        /\ ~Rejected403
        /\ out.raised
        /\ out.exc = calls[1].result.exc

\* C30 (as claimed): when the provider's listing is empty or has no key
\* tagged 'sig', a request presenting a token is Rejected with 403 and the
\* wrapped operation does not run; and a token is only ever verified against
\* a key tagged 'sig'.
C30_NoSigKeyRejected403 ==
    /\ (Done /\ TokenPresented /\ idp.up /\ SigIndices = {})
          => (Rejected403 /\ calls = <<>>)
    /\ Authorized => req.jwt.sig \in ListedSigKeys

--------------------------------------------------------------------------
(* Further properties of the record store, checked under StoreSpec *)

\* C29 (as claimed): delete called without an identifier, or with None or 0,
\* deletes every record, commits and returns True, so that a get() after it
\* returns the empty list.
C29_DeleteWithoutIdDeletesAll ==
    (last.op = "delete" /\ last.id \in {IdNone, 0}) =>
        /\ last.res.kind = "true"
        /\ rows = {}
        /\ get(rows, IdNone).list = {}

--------------------------------------------------------------------------
(* Properties of the JSON projection, checked under ProjectionSpec *)

\* The text t holds the text s.
Contains(t, s) ==
    \E i \in 0..(Len(t) - Len(s)) : SubSeq(t, i + 1, i + Len(s)) = s

\* The records the last operation projected, each with its projection.
Projected ==
    IF view.op = "get" /\ view.res.kind # "none"
    THEN {[row |-> view.row, res |-> view.res]}
    ELSE IF view.op = "get"
    THEN view.list
    ELSE IF view.op = "post" /\ view.row \in rows /\ view.row.id = seq
    THEN {[row |-> view.row, res |-> view.res]}
    ELSE {}

\* C22: the projection of a record names its fields in camelCase (typeTag,
\* registerAt, updateAt, never type_tag, register_at, update_at), and
\* decamelize undoes camelize on every field name.
C22_CamelCaseNamesRoundTrip ==
    /\ \A p \in Projected :
         /\ p.res.kind = "text"
         /\ \A n \in {TYPE_TAG, REGISTER_AT, UPDATE_AT} : Contains(p.res.text, Quote(n))
         /\ \A n \in {"type_tag", "register_at", "update_at"} :
              ~Contains(p.res.text, Quote(Chars[n]))
    /\ \A n \in Columns : decamelize(camelize(Chars[n])) = Chars[n]

\* C23: creating a valid record over HTTP succeeds and returns a projection
\* with the keys typeTag, resume, active, registerAt, updateAt, in which both
\* timestamps are rendered three hours earlier than stored.
C23_CreateProjectsShiftedTimestamps ==
    (view.op = "post" /\ view.row \in rows /\ view.row.id = seq) =>
        /\ view.status = OK
        /\ view.res.kind = "text"
        /\ \A n \in {TYPE_TAG, RESUME, ACTIVE, REGISTER_AT, UPDATE_AT} :
             Contains(view.res.text, Quote(n))
        /\ Contains(view.res.text,
                    Quote(REGISTER_AT) \o <<":", " ">>
                        \o Quote(strftime(view.row.register_at - 3)))
        /\ Contains(view.res.text,
                    Quote(UPDATE_AT) \o <<":", " ">>
                        \o Quote(strftime(view.row.update_at - 3)))

\* C28: every string value of a projection equals the stored value character
\* for character.
C28_ProjectionKeepsValues ==
    \A p \in Projected :
        /\ p.res.kind = "text"
        /\ \A c \in {"type_tag", "description", "resume"} :
             p.row[c] # PyNone => Contains(p.res.text, Quote(Chars[p.row[c]]))

--------------------------------------------------------------------------
(* Properties of get_group, checked under GroupSpec *)

\* The payload the record with the id i was created with.
CreatedWith(i) == (CHOOSE b \in born : b.id = i).payload

\* The values of the payload p equal the filter f on each key of f that names
\* a field.
Matches(p, f) == \A k \in f.has \cap Columns : k \in p.has /\ p.v[k] = f.v[k]

\* The last get_group call returned the records that match its filter.
GroupMatchesFilter ==
    grp.op = "get_group" =>
        /\ grp.res.kind = "list"
        /\ grp.res.list \subseteq rows
        /\ \A r \in rows : r \in grp.res.list <=> Matches(CreatedWith(r.id), grp.filter)
        /\ (grp.filter = F_LEAK_BOGUS) => grp.res = get_group(rows, F_LEAK)
        /\ (/\ grp.filter = F_LEAK
            /\ Cardinality(rows) = 3
            /\ Cardinality({r \in rows : CreatedWith(r.id).v.type_tag = "leak"}) = 2)
               => Cardinality(grp.res.list) = 2

\* C21: every call of get_group returns exactly the stored records whose
\* values equal the filter on every key that names a field, whatever other
\* keys the filter holds, and nothing when no record matches; with two of
\* three records tagged 'leak', the filter {type_tag: 'leak'} returns those two.
C21_GroupIsConjunctionOfEqualities == [][grp' # grp => GroupMatchesFilter']_vars

C21_Witness ==
    /\ grp.op = "get_group"
    /\ grp.filter = F_LEAK
    /\ Cardinality(rows) = 3
    /\ Cardinality(grp.res.list) = 2
    /\ \A r \in grp.res.list : r.type_tag = "leak"

--------------------------------------------------------------------------
(* Properties of the request's session, checked under RequestSpec *)

\* C25: between two requests the session holds nothing (no uncommitted
\* change, no failed transaction), whether or not the request ended with an
\* exception; so a request begins on a session without changes of an earlier
\* request, and reads the committed records only.
C25_SessionScopedToRequest ==
    /\ rq.phase = "idle" => (rq.pending = {} /\ is_active(rq.state))
    /\ (rq.phase = "served" /\ rq.op = "get" /\ rq.res.kind # "error")
           => rq.res = get(rows, rq.id)
    /\ rq.phase = "served" => rq.carried = {}

C25_Witness ==
    /\ rq.phase = "served"
    /\ rq.op = "get"
    /\ rq.res.kind = "list"
    /\ rq.dropped # {}
    /\ \E c \in rq.dropped : c.row # NoRow /\ c.row \notin rows

--------------------------------------------------------------------------
(* Properties of concurrent updates, checked under ConcurrentSpec *)

BothDone == cc.id # IdNone /\ cc.A.at = "done" /\ cc.B.at = "done"

\* C24: when both requests have finished, both returned the record, every
\* field both wrote holds the value of the request that committed last, and
\* every field one of them wrote holds a value one of them wrote.
C24_LastCommitWins ==
    BothDone =>
        LET r == First(QueryById(rows, cc.id))
            latest == cc[cc.order[2]].payload
        IN  /\ cc.A.res.kind = "record"
            /\ cc.B.res.kind = "record"
            /\ \A c \in cc.A.payload.has \cap cc.B.payload.has \cap Columns :
                 r[c] = latest.v[c]
            /\ \A c \in (cc.A.payload.has \cup cc.B.payload.has) \cap Columns :
                 \/ c \in cc.A.payload.has /\ r[c] = cc.A.payload.v[c]
                 \/ c \in cc.B.payload.has /\ r[c] = cc.B.payload.v[c]

==========================================================================
